---- MODULE Spec2Model ----
(***************************************************************************)
(* SecureCADExecutor (src/src/tools/secure_cad_executor.py): one tool      *)
(* object, the container runtime it talks to, and the two bind-mounted     *)
(* host output directories.  Every call of the docker SDK is one step; its *)
(* outcome (a value, or an exception of some class) is chosen by the       *)
(* runtime, and the handlers of _run / _cleanup_container decide what      *)
(* happens next.                                                           *)
(*                                                                         *)
(* Strings are sequences of tokens (<<"Exit code: ", "1", "3", "7">>), an  *)
(* Optional value is a sequence of length 0 (None) or 1.                   *)
(***************************************************************************)
EXTENDS Integers, Sequences, FiniteSets, TLC

VARIABLES
    budget,              \* workload: calls of _run each caller thread still makes
    writes,              \* workload: files the scripts still write
    faults,              \* environment: steps the runtime may still fail (< 0: any)
    serialized,          \* the caller runs one _run at a time (caller-side discipline)
    cad_dir,             \* self.cad_dir (self.output_dir is fixed)
    dockerfile_present,  \* Dockerfile.cad_executor exists at the project root
    image_present,       \* the runtime holds image_name
    instance,            \* the container named container_name: <<>> or <<record>>
    fs,                  \* files on the host under the output directories
    calls,               \* invocations of _run begun so far
    inv,                 \* per invocation slot: position and locals of _run
    fs_at_call,          \* history: fs when the latest call began
    crossKill,           \* history: "waiting" or "busy", what an invocation was
                         \* doing when another one stopped or removed its instance
    trace,               \* history: <<the calls the current invocation has made
                         \* so far, with their outcomes>>, or <<>> when none is kept
    script,              \* the interpreter running a script of _prepare_code
    tool,                \* the SecureCADExecutor object and its construction
    examples,            \* Build123DExamplesTool._run: its position and locals
    docs,                \* Build123DDocSearchTool: the cache files, the run in progress, the run before
    loop                 \* run_interactive: where the loop stands, what it last read and printed

vars == <<budget, writes, faults, serialized, cad_dir, dockerfile_present, image_present, instance,
          fs, calls, inv, fs_at_call, crossKill, trace, script, tool, examples, docs, loop>>

(* ------------------------------ bounds -------------------------------- *)

MaxCalls == 2

MaxFiles == 2

\* the files the scripts may write in the runs that keep the record of the
\* calls made
MaxFilesLogged == 1

Procs == {"a", "b"}

(* ---------------------------- configuration --------------------------- *)

output_dir == "outputs/generated_code"

DefaultCadDir == "outputs/cad_files"

DockerfilePath == "Dockerfile.cad_executor"

container_name == <<"cad-agent-executor">>


\* what the sandboxed process may end with, and what it may have printed
ExitCodes == {0, 137}

Outputs == {"", "Build123D imported successfully"}

\* host files a script can produce, as it writes them the first time: dir is
\* the host directory, sub the subdirectory below it ("" for none), is_file
\* distinguishes a directory, size is st_size
FileUniverse ==
    { [dir |-> output_dir,    sub |-> "",     stem |-> "part",  suffix |-> ".step", is_file |-> TRUE, size |-> 1],
      [dir |-> output_dir,    sub |-> "",     stem |-> "notes", suffix |-> ".txt",  is_file |-> TRUE, size |-> 1],
      [dir |-> DefaultCadDir, sub |-> "",     stem |-> "mesh",  suffix |-> ".stl",  is_file |-> TRUE, size |-> 1],
      [dir |-> DefaultCadDir, sub |-> "step", stem |-> "part",  suffix |-> ".step", is_file |-> TRUE, size |-> 1] }

(* ------------------------------ strings ------------------------------- *)

Digit(d) == CASE d = 0 -> "0" [] d = 1 -> "1" [] d = 2 -> "2" [] d = 3 -> "3"
              [] d = 4 -> "4" [] d = 5 -> "5" [] d = 6 -> "6" [] d = 7 -> "7"
              [] d = 8 -> "8" [] OTHER -> "9"

RECURSIVE Digits(_)
Digits(n) == IF n < 10 THEN <<Digit(n)>> ELSE Digits(n \div 10) \o <<Digit(n % 10)>>

\* a formatting that keeps the last digit only
IntStrLastDigit(n) == <<Digit(n % 10)>>

\* str(n) of a Python int, as f"{n}" formats it
IntStr(n) == IF n < 0 THEN <<"-">> \o Digits(0 - n) ELSE Digits(n)

Contains(s, sub) ==
    \E i \in 1..(Len(s) - Len(sub) + 1) : SubSeq(s, i, i + Len(sub) - 1) = sub

None == <<>>

Some(x) == <<x>>

(* ------------------------------ records ------------------------------- *)

\* the return at lines 156-162
TimedOutRecord ==
    [success |-> FALSE, output |-> "", error |-> Some(<<"Execution timed out">>),
     files_created |-> <<>>, return_code |-> -1]

\* a failure record that keeps a status of its own
FailureRecordStatusOne(msg) ==
    [success |-> FALSE, output |-> "",
     error |-> Some(<<"Failed to execute CAD code: ">> \o msg),
     files_created |-> <<>>, return_code |-> 1]

\* the return at lines 179-185; msg is str(e)
FailureRecord(msg) ==
    [success |-> FALSE, output |-> "",
     error |-> Some(<<"Failed to execute CAD code: ">> \o msg),
     files_created |-> <<>>, return_code |-> -1]

\* error set whatever the status is
CompletedRecordAlwaysError(StatusCode, logs, files_created) ==
    [success |-> StatusCode = 0, output |-> logs,
     error |-> Some(<<"Exit code: ">> \o IntStr(StatusCode)),
     files_created |-> files_created, return_code |-> StatusCode]

\* the return at lines 170-176
CompletedRecord(StatusCode, logs, files_created) ==
    [success |-> StatusCode = 0, output |-> logs,
     error |-> IF StatusCode = 0 THEN None
               ELSE Some(<<"Exit code: ">> \o IntStr(StatusCode)),
     files_created |-> files_created, return_code |-> StatusCode]

\* a message that does not name the file
DockerfileMsgWithoutPath == <<"Dockerfile not found">>

\* str(e) of the exceptions the steps raise
DockerfileNotFoundMsg == <<"Dockerfile not found at ", DockerfilePath>>

\* str(e) of an exception of the SDK or the host: text the code does not set
ErrorMsg(site) == <<"error">>

(* --------------------------- the output scan -------------------------- *)

RECURSIVE SetToSeq(_)
SetToSeq(S) ==
    IF S = {} THEN <<>>
    ELSE LET x == CHOOSE y \in S : TRUE IN <<x>> \o SetToSeq(S \ {x})

\* a pattern list with one suffix too many
PatternsWithText == <<".step", ".stp", ".stl", ".brep", ".py", ".txt">>

\* the patterns of _get_created_files, as the suffix each one asks for
Patterns == <<".step", ".stp", ".stl", ".brep", ".py">>

\* directory.rglob(pattern): the entries anywhere below the directory
GlobRecursive(files, directory, suffix) ==
    {f \in files : f.dir = directory /\ f.suffix = suffix}

\* directory.glob(pattern): the entries directly in the directory whose name
\* ends with the pattern's suffix
Glob(files, directory, suffix) ==
    {f \in files : f.dir = directory /\ f.sub = "" /\ f.suffix = suffix}

\* str(file_path)
PathStr(directory, f) ==
    IF f.sub = "" THEN <<directory, "/", f.stem, f.suffix>>
    ELSE <<directory, "/", f.sub, "/", f.stem, f.suffix>>

Descriptor(directory, f) ==
    [name |-> <<f.stem, f.suffix>>, path |-> PathStr(directory, f),
     type |-> f.suffix, size |-> f.size]

ScanDirectory(files, directory, suffix) ==
    LET hits == SetToSeq({f \in Glob(files, directory, suffix) : f.is_file})
    IN  [i \in 1..Len(hits) |-> Descriptor(directory, hits[i])]

RECURSIVE ScanPatterns(_, _, _)
ScanPatterns(files, dirs, i) ==
    IF i > Len(Patterns) THEN <<>>
    ELSE ScanDirectory(files, dirs[1], Patterns[i])
         \o ScanDirectory(files, dirs[2], Patterns[i])
         \o ScanPatterns(files, dirs, i + 1)

\* a scan that reports only what was not there when the call began
GetNewFilesOnly(files, cdir) == ScanPatterns(files \ fs_at_call, <<output_dir, cdir>>, 1)

\* _get_created_files: pattern-major, output_dir before cad_dir
GetCreatedFiles(files, cdir) == ScanPatterns(files, <<output_dir, cdir>>, 1)

(* ------------------------------ the state ----------------------------- *)

Fresh ==
    [pc |-> "images_get",
     container |-> 0,        \* _run's local `container`: the id it created
     cleanup |-> 0,          \* _cleanup_container's local `container`
     StatusCode |-> None,    \* result['StatusCode'] of container.wait
     logs |-> "",
     ret |-> None,           \* the record _run returns
     \* history of this invocation
     exited |-> None,        \* <<status, output>> its sandboxed process ended
                             \* with while the call was waiting for it
     raised |-> "",          \* the step whose exception reached the outer handler
     waited |-> "",          \* how container.wait ended
     create_attempted |-> FALSE,
     pre_failed |-> FALSE,   \* the pre-create cleanup swallowed an exception
     fin_failed |-> FALSE]   \* the final cleanup swallowed an exception

Idle == [Fresh EXCEPT !.pc = "idle"]

\* no script is being interpreted
NoScript == [pc |-> "off", text |-> <<>>, at |-> 0, out |-> <<>>, exc |-> "",
             exit_rebound |-> FALSE, status |-> None]

\* the object initialize_tool returns: both directories made, the client set
Constructed(cdir) ==
    [pc |-> "ready", dirs |-> {output_dir, cdir}, made |-> {}, client |-> TRUE, error |-> ""]

\* Build123DExamplesTool._run is not being called
NoExamples == [pc |-> "off", query |-> "", query_lower |-> "", at |-> 0,
               matches |-> <<>>, result |-> ""]

\* Build123DDocSearchTool is not in use
NoDocs == [pc |-> "off"]

\* run_interactive has not been called
NoLoop == [pc |-> "off"]

InitCommon ==
    /\ cad_dir \in {DefaultCadDir, output_dir}
    /\ tool = Constructed(cad_dir)
    /\ dockerfile_present \in BOOLEAN
    /\ image_present \in BOOLEAN
    /\ instance = None
    /\ fs = {}
    /\ calls = 0
    /\ inv = [p \in Procs |-> Idle]
    /\ fs_at_call = {}
    /\ crossKill = ""

\* one caller thread, one call after the other; the runtime and the host
\* may fail any step (faults < 0: no limit)
Init ==
    /\ budget = [p \in Procs |-> IF p = "a" THEN MaxCalls ELSE 0]
    /\ writes = MaxFiles
    /\ faults = -1
    /\ serialized = TRUE
    /\ InitCommon
    /\ trace = None
    /\ script = NoScript
    /\ examples = NoExamples
    /\ docs = NoDocs
    /\ loop = NoLoop

\* the same caller, with the calls each invocation makes put on record
InitCalls ==
    /\ budget = [p \in Procs |-> IF p = "a" THEN MaxCalls ELSE 0]
    /\ writes = MaxFilesLogged
    /\ faults = -1
    /\ serialized = TRUE
    /\ InitCommon
    /\ trace = Some(<<>>)
    /\ script = NoScript
    /\ examples = NoExamples
    /\ docs = NoDocs
    /\ loop = NoLoop

\* two caller threads with one call each, with or without caller-side
\* serialization; at most one step fails for a reason of the runtime's own
InitConc ==
    /\ budget = [p \in Procs |-> 1]
    /\ writes = 1
    /\ faults = 1
    /\ serialized \in BOOLEAN
    /\ InitCommon
    /\ cad_dir = DefaultCadDir /\ dockerfile_present /\ ~image_present
    /\ trace = None
    /\ script = NoScript
    /\ examples = NoExamples
    /\ docs = NoDocs
    /\ loop = NoLoop

\* a call that hands control back to its caller while it waits
InProgressExceptWait(p) == inv[p].pc \notin {"idle", "done", "wait"}

\* _run blocks its caller from entry until the finally block has run
InProgress(p) == inv[p].pc \notin {"idle", "done"}

Exists == instance # None

Bound(id) == Exists /\ instance[1].id = id

\* the runtime (or the host) fails the step for a reason of its own
Fault == faults # 0 /\ faults' = (IF faults > 0 THEN faults - 1 ELSE faults)

\* the step fails because the container it addresses is gone, or by a fault
Broken(id) == IF Bound(id) THEN Fault ELSE UNCHANGED faults

\* no finally block: the call returns as soon as the try block is left
NoFinally == "done"

\* the finally block of _run: _cleanup_container, whatever the try did
Finally == "fin_get"

\* no cleanup before containers.create
NoCleanupBeforeCreate == "create"

\* "Remove any existing container" before containers.create
BeforeCreate == "pre_get"

\* no outer handler: the finally block runs and the exception leaves _run
RaiseEscapes(p, site, msg) ==
    inv' = [inv EXCEPT ![p].raised = site, ![p].pc = Finally]

\* an outer handler that starts the work over
RaiseRetries(p, site, msg) ==
    inv' = [inv EXCEPT ![p].raised = site, ![p].pc = BeforeCreate]

\* the outer `except Exception` of _run, then on to the finally block
Raise(p, site, msg) ==
    inv' = [inv EXCEPT ![p].raised = site, ![p].ret = Some(FailureRecord(msg)),
                       ![p].pc = Finally]

\* an invocation that has not returned yet
NotReturned(p) == inv[p].pc \notin {"idle", "done"}

Goto(p, label) == inv' = [inv EXCEPT ![p].pc = label]

(* ------------------------------ the trace ----------------------------- *)

\* one call of the SDK or of the host: the operation, the name it passed,
\* the instance it addressed or obtained (0: none) and how it ended
EvNamed(op, name, id, res) == [op |-> op, name |-> name, id |-> id, res |-> res]

Ev(op, id, res) == EvNamed(op, <<>>, id, res)

\* a return statement of _run (lines 156, 170, 179)
Return == Ev("return", 0, "ok")

Log(es) == trace' = IF trace = None THEN None ELSE Some(trace[1] \o es)

(* ------------------------------- _run --------------------------------- *)

BeginRun(p) ==
    /\ tool.pc = "ready"
    /\ budget[p] > 0
    /\ ~InProgress(p)
    /\ serialized => \A q \in Procs : ~InProgress(q)
    /\ calls' = calls + 1
    /\ budget' = [budget EXCEPT ![p] = @ - 1]
    \* a returned record stays visible until the next call begins
    /\ inv' = [q \in Procs |-> IF q = p THEN Fresh
                               ELSE IF NotReturned(q) THEN inv[q] ELSE Idle]
    /\ fs_at_call' = fs
    /\ trace' = IF trace = None THEN None ELSE Some(<<>>)
    /\ UNCHANGED <<writes, faults, serialized, cad_dir, dockerfile_present,
                   image_present, instance, fs, crossKill, script, tool, examples, docs, loop>>

\* a handler that goes on to the build without looking for the Dockerfile
ImageNotFoundBuildsBlindly(p) ==
    /\ Goto(p, "build")
    /\ Log(<<Ev("images.get", 0, "ImageNotFound")>>)

\* `except docker.errors.ImageNotFound:` up to the Dockerfile check
ImageNotFound(p) ==
    IF dockerfile_present
    THEN /\ Goto(p, "build")
         /\ Log(<<Ev("images.get", 0, "ImageNotFound"), Ev("exists", 0, "true")>>)
    ELSE /\ Raise(p, "dockerfile", DockerfileNotFoundMsg)
         /\ Log(<<Ev("images.get", 0, "ImageNotFound"), Ev("exists", 0, "false"),
                  Return>>)

\* _build_image_if_needed: images.get, and the Dockerfile check of the
\* ImageNotFound handler
ImagesGet(p) ==
    /\ inv[p].pc = "images_get"
    /\ \/ /\ image_present
          /\ Goto(p, "package")
          /\ Log(<<Ev("images.get", 0, "found")>>)
          /\ UNCHANGED faults
       \/ /\ ~image_present
          /\ ImageNotFound(p)
          /\ UNCHANGED faults
       \/ /\ Fault
          /\ Raise(p, "images.get", ErrorMsg("images.get"))
          /\ Log(<<Ev("images.get", 0, "raised"), Return>>)
    /\ UNCHANGED <<budget, writes, serialized, cad_dir, dockerfile_present,
                   image_present, instance, fs, calls, fs_at_call, crossKill, script, tool, examples, docs, loop>>

\* _build_image_if_needed: images.build
ImagesBuild(p) ==
    /\ inv[p].pc = "build"
    /\ \/ /\ image_present' = TRUE
          /\ Goto(p, "package")
          /\ Log(<<Ev("images.build", 0, "ok")>>)
          /\ UNCHANGED faults
       \/ /\ Fault
          /\ UNCHANGED image_present
          /\ Raise(p, "images.build", ErrorMsg("images.build"))
          /\ Log(<<Ev("images.build", 0, "raised"), Return>>)
    /\ UNCHANGED <<budget, writes, serialized, cad_dir, dockerfile_present,
                   instance, fs, calls, fs_at_call, crossKill, script, tool, examples, docs, loop>>

\* _prepare_code, the temporary directory and the tar archive
Package(p) ==
    /\ inv[p].pc = "package"
    /\ \/ /\ Goto(p, BeforeCreate)
          /\ Log(<<Ev("package", 0, "ok")>>)
          /\ UNCHANGED faults
       \/ /\ Fault
          /\ Raise(p, "package", ErrorMsg("package"))
          /\ Log(<<Ev("package", 0, "raised"), Return>>)
    /\ UNCHANGED <<budget, writes, serialized, cad_dir, dockerfile_present,
                   image_present, instance, fs, calls, fs_at_call, crossKill, script, tool, examples, docs, loop>>

(* ------------------------- _cleanup_container ------------------------- *)

\* the locals of a call that has returned are gone
Returned(r) == [r EXCEPT !.cleanup = 0, !.logs = ""]

\* whatever cleanup it was, go on to containers.create
AfterCleanupStartsOver(label) == "create"

AfterCleanup(label) == IF label \in {"pre_get", "pre_stop", "pre_remove"}
                       THEN "create" ELSE "done"

\* _cleanup_container returns to its caller; an exception inside it (failed)
\* is swallowed by its two handlers and the caller continues
Leave(p, failed) ==
    LET to == AfterCleanup(inv[p].pc)
        r  == [inv[p] EXCEPT !.pc = to,
                             !.pre_failed = @ \/ (failed /\ to = "create"),
                             !.fin_failed = @ \/ (failed /\ to = "done")]
    IN  inv' = [inv EXCEPT ![p] = IF to = "done" THEN Returned(r) ELSE r]

\* an exception of the lookup, of stop or of remove that reaches the caller
\* of _cleanup_container
NotSwallowed(p) == Raise(p, "cleanup", ErrorMsg("cleanup"))

\* `except Exception: pass`
Swallowed(p) == Leave(p, TRUE)

\* a lookup whose NotFound reaches the caller of _cleanup_container
AbsentIsAnError(p) == Raise(p, "get", ErrorMsg("get"))

\* `except docker.errors.NotFound: pass`
Absent(p) == Leave(p, FALSE)

\* stop or remove hits the instance of an invocation that has not returned
Victim(p) ==
    IF Exists /\ instance[1].owner # p /\ NotReturned(instance[1].owner)
       /\ inv[instance[1].owner].container = instance[1].id /\ crossKill = ""
    THEN (IF inv[instance[1].owner].pc = "wait" THEN "waiting" ELSE "busy")
    ELSE crossKill

\* docker stop: a running process is killed
Stopped(c) == IF c.state = "running"
              THEN [c EXCEPT !.state = "exited", !.code = 137] ELSE c

\* containers.get(container_name)
CleanupGet(p) ==
    /\ inv[p].pc \in {"pre_get", "fin_get"}
    /\ \/ /\ Exists
          /\ inv' = [inv EXCEPT ![p].cleanup = instance[1].id,
                                ![p].pc = IF inv[p].pc = "pre_get"
                                          THEN "pre_stop" ELSE "fin_stop"]
          /\ Log(<<EvNamed("get", container_name, instance[1].id, "ok")>>)
          /\ UNCHANGED faults
       \/ /\ ~Exists
          /\ Absent(p)
          /\ Log(<<EvNamed("get", container_name, 0, "NotFound")>>)
          /\ UNCHANGED faults
       \/ /\ Fault
          /\ Swallowed(p)
          /\ Log(<<EvNamed("get", container_name, 0, "raised")>>)
    /\ UNCHANGED <<budget, writes, serialized, cad_dir, dockerfile_present,
                   image_present, instance, fs, calls, fs_at_call, crossKill, script, tool, examples, docs, loop>>

\* container.stop()
CleanupStop(p) ==
    /\ inv[p].pc \in {"pre_stop", "fin_stop"}
    /\ \/ /\ Bound(inv[p].cleanup)
          /\ instance' = Some(Stopped(instance[1]))
          /\ crossKill' = Victim(p)
          /\ Goto(p, IF inv[p].pc = "pre_stop" THEN "pre_remove" ELSE "fin_remove")
          /\ Log(<<Ev("stop", inv[p].cleanup, "ok")>>)
          /\ UNCHANGED faults
       \/ /\ Broken(inv[p].cleanup)
          /\ Swallowed(p)
          /\ Log(<<Ev("stop", inv[p].cleanup, "raised")>>)
          /\ UNCHANGED <<instance, crossKill>>
    /\ UNCHANGED <<budget, writes, serialized, cad_dir, dockerfile_present,
                   image_present, fs, calls, fs_at_call, script, tool, examples, docs, loop>>

\* container.remove()
CleanupRemove(p) ==
    /\ inv[p].pc \in {"pre_remove", "fin_remove"}
    /\ \/ /\ Bound(inv[p].cleanup)
          /\ instance' = None
          /\ crossKill' = Victim(p)
          /\ Leave(p, FALSE)
          /\ Log(<<Ev("remove", inv[p].cleanup, "ok")>>)
          /\ UNCHANGED faults
       \/ /\ Broken(inv[p].cleanup)
          /\ Swallowed(p)
          /\ Log(<<Ev("remove", inv[p].cleanup, "raised")>>)
          /\ UNCHANGED <<instance, crossKill>>
    /\ UNCHANGED <<budget, writes, serialized, cad_dir, dockerfile_present,
                   image_present, fs, calls, fs_at_call, script, tool, examples, docs, loop>>

(* ------------------- create, copy, start, wait, logs ------------------ *)

\* a name of its own for every invocation
UniqueInstanceName(call) == container_name \o <<"-">> \o IntStr(call)

\* name=self.container_name: the name invocation number `call` gives its
\* instance
InstanceName(call) == container_name

\* the restrictions without the network one
HostConfigWithNetwork(odir, cdir) ==
    [volumes |-> [d \in {odir, cdir} |->
                    [bind |-> IF d = cdir THEN "/app/outputs/cad_files"
                              ELSE "/app/outputs/generated_code",
                     mode |-> "rw"]],
     mem_limit |-> "512m", cpu_quota |-> 50000, network_mode |-> "bridge"]

\* volumes (a dict keyed by host directory: of two equal keys the later one
\* stays), mem_limit, cpu_quota and network_mode of containers.create
HostConfig(odir, cdir) ==
    [volumes |-> [d \in {odir, cdir} |->
                    [bind |-> IF d = cdir THEN "/app/outputs/cad_files"
                              ELSE "/app/outputs/generated_code",
                     mode |-> "rw"]],
     mem_limit |-> "512m", cpu_quota |-> 50000, network_mode |-> "none"]

\* containers.create(name=container_name, ..., remove=True): the instance, or
\* a name conflict, or a failure of the runtime or of the SDK (which may
\* reject remove, an argument of containers.run)
Create(p) ==
    /\ inv[p].pc = "create"
    /\ \/ /\ ~Exists
          /\ instance' = Some([id |-> calls, owner |-> p,
                               name |-> InstanceName(calls),
                               config |-> HostConfig(output_dir, cad_dir),
                               state |-> "created", code |-> 0, out |-> ""])
          /\ inv' = [inv EXCEPT ![p].container = calls, ![p].create_attempted = TRUE,
                                ![p].pc = "put_archive"]
          /\ Log(<<EvNamed("create", InstanceName(calls), calls, "ok")>>)
          /\ UNCHANGED faults
       \/ /\ Exists /\ instance[1].name = InstanceName(calls)
          /\ UNCHANGED <<instance, faults>>   \* 409: the name is already in use
          /\ inv' = [inv EXCEPT ![p].create_attempted = TRUE, ![p].raised = "conflict",
                                ![p].ret = Some(FailureRecord(ErrorMsg("conflict"))),
                                ![p].pc = Finally]
          /\ Log(<<EvNamed("create", InstanceName(calls), 0, "raised"), Return>>)
       \/ /\ Fault
          /\ UNCHANGED instance
          /\ inv' = [inv EXCEPT ![p].create_attempted = TRUE, ![p].raised = "create",
                                ![p].ret = Some(FailureRecord(ErrorMsg("create"))),
                                ![p].pc = Finally]
          /\ Log(<<EvNamed("create", InstanceName(calls), 0, "raised"), Return>>)
    /\ UNCHANGED <<budget, writes, serialized, cad_dir, dockerfile_present,
                   image_present, fs, calls, fs_at_call, crossKill, script, tool, examples, docs, loop>>

\* container.put_archive
PutArchive(p) ==
    /\ inv[p].pc = "put_archive"
    /\ \/ /\ Bound(inv[p].container)
          /\ Goto(p, "start")
          /\ Log(<<Ev("put_archive", inv[p].container, "ok")>>)
          /\ UNCHANGED faults
       \/ /\ Broken(inv[p].container)
          /\ Raise(p, "put_archive", ErrorMsg("put_archive"))
          /\ Log(<<Ev("put_archive", inv[p].container, "raised"), Return>>)
    /\ UNCHANGED <<budget, writes, serialized, cad_dir, dockerfile_present,
                   image_present, instance, fs, calls, fs_at_call, crossKill, script, tool, examples, docs, loop>>

\* container.start
Start(p) ==
    /\ inv[p].pc = "start"
    /\ \/ /\ Bound(inv[p].container)
          /\ instance' = Some([instance[1] EXCEPT !.state = "running"])
          /\ Goto(p, "wait")
          /\ Log(<<Ev("start", inv[p].container, "ok")>>)
          /\ UNCHANGED faults
       \/ /\ Broken(inv[p].container)
          /\ UNCHANGED instance
          /\ Raise(p, "start", ErrorMsg("start"))
          /\ Log(<<Ev("start", inv[p].container, "raised"), Return>>)
    /\ UNCHANGED <<budget, writes, serialized, cad_dir, dockerfile_present,
                   image_present, fs, calls, fs_at_call, crossKill, script, tool, examples, docs, loop>>

\* container.wait(timeout=60): the exit status; or, the instance still
\* running when the 60 s are over, the SDK's read timeout
\* (requests.exceptions.ReadTimeout, which is no docker.errors.APIError); or
\* an APIError of the runtime (NotFound is one)
Wait(p) ==
    /\ inv[p].pc = "wait"
    /\ \/ /\ Bound(inv[p].container) /\ instance[1].state = "exited"
          /\ inv' = [inv EXCEPT ![p].StatusCode = Some(instance[1].code),
                                ![p].waited = "status", ![p].pc = "logs"]
          /\ Log(<<Ev("wait", inv[p].container, "status")>>)
          /\ UNCHANGED faults
       \/ /\ Bound(inv[p].container) /\ instance[1].state = "running"
          /\ inv' = [inv EXCEPT ![p].waited = "ReadTimeout", ![p].raised = "wait",
                                ![p].ret = Some(FailureRecord(ErrorMsg("wait"))),
                                ![p].pc = Finally]
          /\ Log(<<Ev("wait", inv[p].container, "ReadTimeout"), Return>>)
          /\ UNCHANGED faults
       \/ /\ Broken(inv[p].container)
          /\ inv' = [inv EXCEPT ![p].waited = "APIError", ![p].pc = "timeout_stop"]
          /\ Log(<<Ev("wait", inv[p].container, "APIError")>>)
    /\ UNCHANGED <<budget, writes, serialized, cad_dir, dockerfile_present,
                   image_present, instance, fs, calls, fs_at_call, crossKill, script, tool, examples, docs, loop>>

\* the APIError handler of the wait: container.stop()
TimeoutStop(p) ==
    /\ inv[p].pc = "timeout_stop"
    /\ \/ /\ Bound(inv[p].container)
          /\ instance' = Some(Stopped(instance[1]))
          /\ Goto(p, "timeout_remove")
          /\ Log(<<Ev("stop", inv[p].container, "ok")>>)
          /\ UNCHANGED faults
       \/ /\ Broken(inv[p].container)
          /\ UNCHANGED instance
          /\ Raise(p, "stop", ErrorMsg("stop"))
          /\ Log(<<Ev("stop", inv[p].container, "raised"), Return>>)
    /\ UNCHANGED <<budget, writes, serialized, cad_dir, dockerfile_present,
                   image_present, fs, calls, fs_at_call, crossKill, script, tool, examples, docs, loop>>

\* the APIError handler of the wait: container.remove(), then the return
TimeoutRemove(p) ==
    /\ inv[p].pc = "timeout_remove"
    /\ \/ /\ Bound(inv[p].container)
          /\ instance' = None
          /\ inv' = [inv EXCEPT ![p].ret = Some(TimedOutRecord), ![p].pc = Finally]
          /\ Log(<<Ev("remove", inv[p].container, "ok"), Return>>)
          /\ UNCHANGED faults
       \/ /\ Broken(inv[p].container)
          /\ UNCHANGED instance
          /\ Raise(p, "remove", ErrorMsg("remove"))
          /\ Log(<<Ev("remove", inv[p].container, "raised"), Return>>)
    /\ UNCHANGED <<budget, writes, serialized, cad_dir, dockerfile_present,
                   image_present, fs, calls, fs_at_call, crossKill, script, tool, examples, docs, loop>>

\* container.logs().decode('utf-8')
Logs(p) ==
    /\ inv[p].pc = "logs"
    /\ \/ /\ Bound(inv[p].container)
          /\ inv' = [inv EXCEPT ![p].logs = instance[1].out, ![p].pc = "scan"]
          /\ Log(<<Ev("logs", inv[p].container, "ok")>>)
          /\ UNCHANGED faults
       \/ /\ Broken(inv[p].container)
          /\ Raise(p, "logs", ErrorMsg("logs"))
          /\ Log(<<Ev("logs", inv[p].container, "raised"), Return>>)
    /\ UNCHANGED <<budget, writes, serialized, cad_dir, dockerfile_present,
                   image_present, instance, fs, calls, fs_at_call, crossKill, script, tool, examples, docs, loop>>

\* a scan that removes what it has listed
ScanAndClear(p) ==
    /\ inv[p].pc = "scan"
    /\ inv' = [inv EXCEPT ![p].ret = Some(CompletedRecord(inv[p].StatusCode[1],
                                            inv[p].logs, GetCreatedFiles(fs, cad_dir))),
                          ![p].pc = Finally]
    /\ fs' = {f \in fs : ~(f.is_file /\ f.sub = "" /\ f.suffix \in {".step", ".stl"})}
    /\ Log(<<Ev("scan", 0, "ok"), Return>>)
    /\ UNCHANGED <<budget, writes, faults, serialized, cad_dir, dockerfile_present,
                   image_present, instance, calls, fs_at_call, crossKill, script, tool, examples, docs, loop>>

\* _get_created_files and the return of the completed record
Scan(p) ==
    /\ inv[p].pc = "scan"
    /\ inv' = [inv EXCEPT ![p].ret = Some(CompletedRecord(inv[p].StatusCode[1],
                                            inv[p].logs, GetCreatedFiles(fs, cad_dir))),
                          ![p].pc = Finally]
    /\ Log(<<Ev("scan", 0, "ok"), Return>>)
    /\ UNCHANGED <<budget, writes, faults, serialized, cad_dir, dockerfile_present,
                   image_present, instance, fs, calls, fs_at_call, crossKill, script, tool, examples, docs, loop>>

(* ----------------------- the sandboxed process ------------------------ *)

SamePath(f, g) ==
    f.dir = g.dir /\ f.sub = g.sub /\ f.stem = g.stem /\ f.suffix = g.suffix

\* open(path, 'w') and a write: a new file, or an existing one rewritten
\* with other content
Written(files, f) ==
    IF \E g \in files : SamePath(f, g)
    THEN {IF SamePath(f, g) THEN [g EXCEPT !.size = @ + 1] ELSE g : g \in files}
    ELSE files \cup {f}

\* the script writes a file below one of the two bind mounts
ContainerWrite(f) ==
    /\ Exists /\ instance[1].state = "running"
    /\ writes > 0
    /\ f.dir \in DOMAIN instance[1].config.volumes
    /\ fs' = Written(fs, f)
    /\ writes' = writes - 1
    /\ UNCHANGED <<budget, faults, serialized, cad_dir, dockerfile_present,
                   image_present, instance, calls, inv, fs_at_call, crossKill,
                   trace, script, tool, examples, docs, loop>>

\* the script ends, with its exit status and what it printed
ContainerExit(c, o) ==
    /\ Exists /\ instance[1].state = "running"
    /\ instance' = Some([instance[1] EXCEPT !.state = "exited", !.code = c, !.out = o])
    /\ inv' = [p \in Procs |-> IF inv[p].container = instance[1].id /\ inv[p].pc = "wait"
                               THEN [inv[p] EXCEPT !.exited = Some(<<c, o>>)]
                               ELSE inv[p]]
    /\ UNCHANGED <<budget, writes, faults, serialized, cad_dir, dockerfile_present,
                   image_present, fs, calls, fs_at_call, crossKill, trace, script, tool, examples, docs, loop>>

Next ==
    \/ \E p \in Procs :
          \/ BeginRun(p) \/ ImagesGet(p) \/ ImagesBuild(p) \/ Package(p)
          \/ CleanupGet(p) \/ CleanupStop(p) \/ CleanupRemove(p)
          \/ Create(p) \/ PutArchive(p) \/ Start(p) \/ Wait(p)
          \/ TimeoutStop(p) \/ TimeoutRemove(p) \/ Logs(p) \/ Scan(p)
    \/ \E f \in FileUniverse : ContainerWrite(f)
    \/ \E c \in ExitCodes, o \in Outputs : ContainerExit(c, o)

Spec == Init /\ [][Next]_vars

SpecConc == InitConc /\ [][Next]_vars

SpecCalls == InitCalls /\ [][Next]_vars

(* ------------------------ what a call returned ------------------------ *)

Returns(p) == inv[p].pc = "done"

Ret(p) == inv[p].ret[1]

\* the call returned the record of lines 170-176
Completed(p) == Returns(p) /\ inv[p].waited = "status" /\ inv[p].raised = ""

\* an error path of the try block: an exception reached the outer handler,
\* the wait raised APIError, or the process ended with a non-zero status
TryFailed(p) ==
    \/ inv[p].raised # ""
    \/ inv[p].waited = "APIError"
    \/ inv[p].StatusCode # None /\ inv[p].StatusCode[1] # 0

IsFailure(r) == ~r.success /\ r.error # None /\ Len(r.error[1]) > 0

(* -------------------------------- C1 ---------------------------------- *)

\* C1 as stated: every call returns a record, and on every error path, a
\* failure inside the final cleanup included, the record has success=false
\* and a non-empty error.
C1_AsStated ==
    \A p \in Procs : Returns(p) =>
        /\ inv[p].ret # None
        /\ (TryFailed(p) \/ inv[p].fin_failed) => IsFailure(Ret(p))

\* C1 amended: every call returns a record; every error path of the try
\* block ends in a record with success=false and a non-empty error; a failure
\* inside the final cleanup is swallowed and leaves the record as the try
\* block made it, success=true when the try block met no error.
C1_RecordAlwaysReturned ==
    \A p \in Procs : Returns(p) =>
        /\ inv[p].ret # None
        /\ TryFailed(p) => IsFailure(Ret(p))
        /\ ~TryFailed(p) => Ret(p).success

C1_Witness ==
    \E p \in Procs : /\ Returns(p) /\ inv[p].raised = "start" /\ inv[p].fin_failed
                      /\ IsFailure(Ret(p))

(* -------------------------------- C2 ---------------------------------- *)

ExitedWith(p, c) == inv[p].exited # None /\ inv[p].exited[1][1] = c

DigitTokens == <<"0", "1", "2", "3", "4", "5", "6", "7", "8", "9">>

IsDigits(s) == Len(s) > 0 /\ \A i \in 1..Len(s) : \E d \in 1..10 : DigitTokens[d] = s[i]

DigitValue(t) == (CHOOSE d \in 1..10 : DigitTokens[d] = t) - 1

RECURSIVE ParseDec(_)
ParseDec(s) == IF Len(s) = 0 THEN 0
               ELSE 10 * ParseDec(SubSeq(s, 1, Len(s) - 1)) + DigitValue(s[Len(s)])

\* the text holds the decimal numeral of c
ContainsNumber(s, c) ==
    \E i \in 1..Len(s) : \E j \in i..Len(s) :
        IsDigits(SubSeq(s, i, j)) /\ ParseDec(SubSeq(s, i, j)) = c

C4_AsStated ==
    \A p \in Procs : (Returns(p) /\ inv[p].waited = "ReadTimeout") =>
        /\ ~Ret(p).success
        /\ Ret(p).error = Some(<<"Execution timed out">>)
        /\ ~Exists

(* -------------------------------- C5 ---------------------------------- *)

\* C5 as stated: the instance a call created has been removed when the call
\* returns, whichever branch was taken.
C5_AsStated ==
    \A p \in Procs : (Returns(p) /\ inv[p].container # 0) => ~Bound(inv[p].container)

\* C5 amended: the instance a call created has been removed when the call
\* returns, whichever branch was taken, unless the lookup, the stop or the
\* remove of the final cleanup raised (the exception is swallowed and the
\* instance may stay).
C5_RemovedUnlessCleanupFailed ==
    \A p \in Procs : (Returns(p) /\ inv[p].container # 0 /\ ~inv[p].fin_failed)
                          => ~Bound(inv[p].container)

C5_Witness ==
    \E p \in Procs : /\ Returns(p) /\ inv[p].container # 0 /\ ~inv[p].fin_failed
                      /\ inv[p].waited = "status" /\ ~Exists

(* -------------------------------- C6 ---------------------------------- *)

\* C6 as stated: a call made right after another one never fails on a name
\* collision when it creates its instance.
C6_AsStated == \A p \in Procs : inv[p].raised # "conflict"

\* C6 amended: after a call whose final cleanup did not raise, no instance
\* with the fixed name exists; a call made right after another one fails on a
\* name collision only when its own pre-create cleanup raised (and so left in
\* place an instance that a failed final cleanup had left behind).
C6_NoCollisionUnlessCleanupFailed ==
    \A p \in Procs :
        /\ (Returns(p) /\ ~inv[p].fin_failed) => ~Exists
        /\ inv[p].raised = "conflict" => inv[p].pre_failed

\* the second call found the instance the first call left behind, removed it
\* and created its own
C6_Witness ==
    \E p \in Procs : /\ calls = 2 /\ inv[p].pc = "put_archive" /\ inv[p].cleanup = 1
                      /\ ~inv[p].pre_failed /\ Bound(2)

(* -------------------------------- C7 ---------------------------------- *)

ConfigurationError(r) == IsFailure(r) /\ Contains(r.error[1], <<DockerfilePath>>)

\* C7 as stated: a call made while the Dockerfile is absent returns a
\* configuration error naming the file and never attempts containers.create
\* (calls on which a step failed for another reason are left aside).
C7_AsStated ==
    \A p \in Procs :
        (Returns(p) /\ ~dockerfile_present /\ inv[p].raised \in {"", "dockerfile"}) =>
        ConfigurationError(Ret(p)) /\ ~inv[p].create_attempted

\* C7 amended: a call made while the Dockerfile is absent and whose image
\* lookup reports the image as not found returns a configuration error naming
\* the file and never attempts containers.create (with the image present the
\* Dockerfile is not looked at and the call goes on).
C7_MissingDockerfileFailsFast ==
    \A p \in Procs :
        (Returns(p) /\ ~dockerfile_present /\ ~image_present
            /\ inv[p].raised # "images.get") =>
        ConfigurationError(Ret(p)) /\ ~inv[p].create_attempted

C7_Witness ==
    \E p \in Procs : /\ Returns(p) /\ ~dockerfile_present /\ inv[p].raised = "dockerfile"
                      /\ ConfigurationError(Ret(p)) /\ ~inv[p].create_attempted

(* -------------------------------- C8 ---------------------------------- *)

\* C8: under caller-side serialization no invocation stops or removes the
\* instance of another invocation that has not returned; without it, the
\* cleanup of one invocation can stop or remove the instance another one is
\* waiting on (the witness).
C8_SerializedCallsDoNotInterfere == serialized => crossKill = ""

C8_Witness ==
    /\ ~serialized /\ crossKill = "waiting"
    /\ \E p \in Procs : inv[p].pc = "wait" /\ ~Bound(inv[p].container)

(* -------------------------------- C9 ---------------------------------- *)

Recognized == {".step", ".stp", ".stl", ".brep", ".py"}

\* the entry describes a regular file directly in one of the two directories
Describes(e, f) ==
    /\ f.is_file /\ f.sub = "" /\ f.dir \in {output_dir, cad_dir}
    /\ e.path = <<f.dir, "/", f.stem, f.suffix>>
    /\ e.name = <<f.stem, f.suffix>> /\ e.type = f.suffix

\* C9: files_created of a completed execution lists only files with a
\* recognized extension that are present in one of the two output
\* directories, and with two distinct directories no file is listed twice.
C9_OnlyRecognizedFilesListed ==
    \A p \in Procs : Completed(p) =>
        LET listed == Ret(p).files_created IN
        /\ \A i \in 1..Len(listed) :
              /\ listed[i].type \in Recognized
              /\ \E f \in fs : Describes(listed[i], f)
        /\ cad_dir # output_dir =>
              \A i, j \in 1..Len(listed) : listed[i].path = listed[j].path => i = j

\* a completed call that lists part.step while notes.txt lies beside it
C9_Witness ==
    \E p \in Procs :
        /\ Completed(p) /\ cad_dir # output_dir
        /\ Len(Ret(p).files_created) = 1
        /\ Ret(p).files_created[1].name = <<"part", ".step">>
        /\ \E f \in fs : f.suffix = ".txt"

(* -------------------------------- C10 --------------------------------- *)

Reportable(f) ==
    f.is_file /\ f.sub = "" /\ f.dir \in {output_dir, cad_dir} /\ f.suffix \in Recognized

C11_AsStated ==
    \A p \in Procs : Completed(p) =>
        \A i \in 1..Len(Ret(p).files_created) :
            ~\E f \in fs_at_call : Describes(Ret(p).files_created[i], f)

(* ------------------------ the calls of one _run ----------------------- *)

\* the calls the current invocation (number `calls`) has made so far
Trace == IF trace = None THEN <<>> ELSE trace[1]

Made(op) == {i \in 1..Len(Trace) : Trace[i].op = op}

Ok(op) == {i \in Made(op) : Trace[i].res = "ok"}

\* call number i is a call of op that raised nothing
IsOk(i, op) == Trace[i].op = op /\ Trace[i].res = "ok"

\* before call number i a call of op was made and raised nothing
Earlier(i, op) == \E j \in 1..(i - 1) : IsOk(j, op)

\* no call of op has been made
Never(op) == \A i \in 1..Len(Trace) : Trace[i].op # op

(* -------------------------------- C12 --------------------------------- *)

\* C12 as stated: the name under which an invocation creates its instance
\* differs from the name used by every other invocation: it is not the name
\* of an instance that an earlier invocation created and that this
\* invocation's lookup found.
C12_AsStated ==
    \A i \in Made("create") : \A j \in Ok("get") :
        Trace[j].id # calls => Trace[i].name # Trace[j].name

\* C12 amended: every invocation creates its instance under the one fixed
\* name container_name, the name its cleanups look up; the script is
\* transferred into an instance that this invocation itself has created.
C12_FixedNameFreshInstance ==
    /\ \A i \in Made("create") \cup Made("get") : Trace[i].name = container_name
    /\ Exists => instance[1].name = container_name
    /\ \A i \in Ok("put_archive") :
          /\ Trace[i].id = calls
          /\ \E j \in Ok("create") : j < i /\ Trace[j].id = Trace[i].id

\* the second call found the instance of the first under the name, removed it,
\* created its own under the same name and transferred the script into it
C12_Witness ==
    /\ calls = 2
    /\ \E g \in Ok("get"), r \in Ok("remove"), c \in Ok("create"), t \in Ok("put_archive") :
          /\ g < r /\ r < c /\ c < t
          /\ Trace[g].id = 1 /\ Trace[r].id = 1 /\ Trace[c].id = 2 /\ Trace[t].id = 2
          /\ Trace[g].name = Trace[c].name

(* -------------------------------- C13 --------------------------------- *)

Restricted(c) ==
    /\ c.config.mem_limit = "512m"
    /\ c.config.cpu_quota = 50000
    /\ c.config.network_mode = "none"
    /\ DOMAIN c.config.volumes = {output_dir, cad_dir}
    /\ \A d \in DOMAIN c.config.volumes : c.config.volumes[d].mode = "rw"

\* C13: every instance a call creates or starts has the memory ceiling 512m,
\* the CPU quota 50000, network_mode none and exactly the two host output
\* directories bind-mounted read-write, in every state it goes through; a
\* call starts no instance but the one it created.
C13_EveryInstanceRestricted ==
    /\ Exists => Restricted(instance[1])
    /\ \A i \in Ok("start") : \E j \in Ok("create") : j < i /\ Trace[j].id = Trace[i].id

\* a started instance with the restrictions, its script writing into a mount
C13_Witness ==
    /\ Exists /\ instance[1].state = "running" /\ Restricted(instance[1])
    /\ Ok("start") # {} /\ cad_dir # output_dir
    /\ \E f \in fs : f.dir = cad_dir

(* -------------------------------- C14 --------------------------------- *)

\* C14 as stated: cleanup performed twice in a row leaves the same state as
\* cleanup performed once: the cleanup with which a call begins, which comes
\* directly after the final cleanup of the call before it, finds no instance
\* left to remove (every removal in a call comes after the call's create).
C14_AsStated == \A i \in Ok("remove") : \E j \in Made("create") : j < i

C14_Step(p) ==
    /\ (CleanupGet(p) /\ ~Exists) =>
          /\ instance' = instance /\ fs' = fs /\ image_present' = image_present
          /\ inv'[p].pc = AfterCleanup(inv[p].pc)
          /\ inv'[p].raised = inv[p].raised /\ inv'[p].ret = inv[p].ret
    /\ (inv'[p].pc = "create" /\ ~inv'[p].pre_failed) => instance' = None
    /\ (inv'[p].pc = "done" /\ ~inv'[p].fin_failed) => instance' = None

\* C14 amended: _cleanup_container called when no instance with the fixed
\* name exists is not an error and changes nothing; after a cleanup whose
\* lookup, stop and remove raised nothing no instance exists, so that a
\* cleanup following it leaves the same state (the final cleanup after the
\* timeout branch has removed the instance is one); a cleanup that follows
\* one whose lookup, stop or remove raised may still find and remove the
\* instance.
C14_CleanupIdempotentUnlessFailed == [][\A p \in Procs : C14_Step(p)]_vars

\* the timeout branch removed the instance and the final cleanup found none
C14_Witness ==
    \E p \in Procs :
        /\ Returns(p) /\ Ret(p) = TimedOutRecord /\ ~inv[p].fin_failed /\ ~Exists
        /\ \E r \in Ok("remove") : r + 2 = Len(Trace)
        /\ Trace[Len(Trace)].op = "get" /\ Trace[Len(Trace)].res = "NotFound"

(* -------------------------------- C15 --------------------------------- *)

AtMostOnce(op) ==
    \A i \in 1..Len(Trace) : Trace[i].op = op => \A j \in 1..(i - 1) : Trace[j].op # op

\* C15: within one invocation containers.create, container.start and
\* container.wait are each called at most once and one record is returned;
\* once the record of a failed or timed-out execution is being returned, no
\* further create, start or wait is made.
C15_NoRetry ==
    /\ AtMostOnce("create") /\ AtMostOnce("start") /\ AtMostOnce("wait")
    /\ AtMostOnce("return")
    /\ \A r \in 1..Len(Trace) : Trace[r].op = "return" =>
          \A i \in (r + 1)..Len(Trace) : Trace[i].op \notin {"create", "start", "wait"}
    /\ \A p \in Procs : inv[p].pc # "idle" =>
          /\ inv[p].ret # None <=> ~Never("return")
          /\ Returns(p) => ~Never("return")

\* the wait timed out: one create, one start, one wait, one record
C15_Witness ==
    \E p \in Procs :
        /\ Returns(p) /\ inv[p].waited = "ReadTimeout" /\ IsFailure(Ret(p))
        /\ Cardinality(Made("create")) = 1 /\ Cardinality(Made("start")) = 1
        /\ Cardinality(Made("wait")) = 1 /\ Cardinality(Made("return")) = 1

(* -------------------------------- C16 --------------------------------- *)

\* the calls that removed the instance this invocation created, and those
\* that stopped or removed an instance it found in place
OwnRemoved == {i \in Ok("remove") : Trace[i].id = calls}

OfPreExisting == {i \in Ok("stop") \cup Ok("remove") : Trace[i].id # calls}

\* the calls that act on the instance of the invocation
OnInstance == {"create", "put_archive", "start", "wait", "logs", "scan"}

\* C16: within one invocation the instance goes through Created, Started,
\* Completed or TimedOut, Removed in this order only: a pre-existing instance
\* is removed before the creation, the archive is transferred after the
\* creation and before the start, the wait begins after the start, logs and
\* scan are taken after the wait has returned a status and before the tool
\* removes the instance, and nothing acts on an instance once it is removed.
C16_LifecycleOrder ==
    /\ \A i \in 1..Len(Trace) :
          LET e == Trace[i]
          IN  /\ e.op = "put_archive" => Earlier(i, "create")
              /\ e.op = "start" => Earlier(i, "put_archive")
              /\ e.op = "wait" => Earlier(i, "start")
              /\ e.op \in {"logs", "scan"} =>
                    \E j \in 1..(i - 1) : Trace[j].op = "wait" /\ Trace[j].res = "status"
              /\ (e.op \in {"stop", "remove"} /\ e.res = "ok") =>
                    IF e.id # calls THEN ~Earlier(i, "create")
                    ELSE e.op = "remove" =>
                            /\ ~Bound(calls)
                            /\ \A j \in (i + 1)..Len(Trace) : Trace[j].op \notin OnInstance
              /\ IsOk(i, "remove") =>
                    \A j \in (i + 1)..Len(Trace) : Trace[j].id # e.id
    /\ Bound(calls) =>
          (instance[1].state = "created" <=> \A i \in 1..Len(Trace) : ~IsOk(i, "start"))

\* the instance of the call before removed, then create, put_archive, start,
\* wait, logs, scan, and the final cleanup's remove
C16_Witness ==
    \E p \in Procs :
        /\ Completed(p) /\ OfPreExisting # {} /\ OwnRemoved # {}
        /\ \E c \in Ok("create"), t \in Ok("put_archive"), s \in Ok("start"),
              w \in Made("wait"), l \in Ok("logs"), n \in Made("scan"), r \in OwnRemoved :
              c < t /\ t < s /\ s < w /\ w < l /\ l < n /\ n < r

(* -------------------------------- C17 --------------------------------- *)

\* a step of the tool itself, as opposed to one of the sandboxed script
ToolStep ==
    \E p \in Procs :
        \/ BeginRun(p) \/ ImagesGet(p) \/ ImagesBuild(p) \/ Package(p)
        \/ CleanupGet(p) \/ CleanupStop(p) \/ CleanupRemove(p)
        \/ Create(p) \/ PutArchive(p) \/ Start(p) \/ Wait(p)
        \/ TimeoutStop(p) \/ TimeoutRemove(p) \/ Logs(p) \/ Scan(p)

\* C17: no step of the tool (_run on any path, _get_created_files,
\* _cleanup_container) deletes or modifies a file present in the two output
\* directories or adds one: their contents change only by what the sandboxed
\* script writes through the bind mounts.
C17_ToolLeavesFilesAlone ==
    [][/\ ToolStep => fs' = fs
       /\ fs' # fs => \E f \in FileUniverse : ContainerWrite(f)]_vars

\* a second call scanned and cleaned up with the files of the first, one of
\* them rewritten by a script, still in place
C17_Witness ==
    \E p \in Procs :
        /\ calls = 2 /\ Completed(p) /\ ~inv[p].fin_failed /\ ~Exists
        /\ fs_at_call # {} /\ fs_at_call = fs
        /\ \E f \in fs : f.size > 1

(* ------------------- the script of _prepare_code ---------------------- *)

MaxStmts == 2

\* what a line of the caller's text does when the interpreter reaches it
Stmts == {"statement", "raise Exception", "raise BaseException",
          "raise SystemExit(0)", "sys.exit = no-op", "syntax error"}

Texts == UNION {[1..n -> Stmts] : n \in 0..MaxStmts}

\* a boundary that catches every class
CaughtAll(class) == TRUE

\* `except Exception as e:` catches the classes derived from Exception
Caught(class) == class = "Exception"

\* python cad_code.py begins: the script is the preamble, `try:` with the
\* caller's lines indented below it, the handler and the trailer
InitScript ==
    /\ budget = [p \in Procs |-> 0]
    /\ writes = 0
    /\ faults = 0
    /\ serialized = TRUE
    /\ InitCommon
    /\ cad_dir = DefaultCadDir /\ dockerfile_present /\ image_present
    /\ trace = None
    /\ script \in {[NoScript EXCEPT !.pc = "compile", !.text = t] : t \in Texts}
    /\ examples = NoExamples
    /\ docs = NoDocs
    /\ loop = NoLoop

Host == <<budget, writes, faults, serialized, cad_dir, dockerfile_present,
          image_present, instance, fs, calls, inv, fs_at_call, crossKill, trace, tool, examples, docs, loop>>

Ended(status) == [script EXCEPT !.pc = "ended", !.status = Some(status)]

Printed(r, tokens) == [r EXCEPT !.out = @ \o tokens]

\* the interpreter compiles the whole file before it runs any of it
ScriptCompile ==
    /\ script.pc = "compile"
    /\ script' = IF \E i \in 1..Len(script.text) : script.text[i] = "syntax error"
                 THEN Printed(Ended(1), <<"SyntaxError">>)
                 ELSE [script EXCEPT !.pc = "preamble"]
    /\ UNCHANGED Host

\* lines 192-223: imports, output directories, banner
ScriptPreamble ==
    /\ script.pc = "preamble"
    /\ script' = Printed([script EXCEPT !.pc = "try", !.at = 1],
                         <<"Build123D imported successfully", "Executing CAD code...">>)
    /\ UNCHANGED Host

\* one line of the caller's text, inside the try block
ScriptUser ==
    /\ script.pc = "try" /\ script.at <= Len(script.text)
    /\ LET line == script.text[script.at] IN
       script' =
         CASE line = "statement" -> [script EXCEPT !.at = @ + 1]
           [] line = "sys.exit = no-op" ->
                [script EXCEPT !.at = @ + 1, !.exit_rebound = TRUE]
           [] line = "raise Exception" ->
                [script EXCEPT !.exc = "Exception",
                               !.pc = IF Caught("Exception") THEN "except" ELSE "unwind"]
           [] line = "raise BaseException" ->
                [script EXCEPT !.exc = "BaseException",
                               !.pc = IF Caught("BaseException") THEN "except" ELSE "unwind"]
           [] OTHER ->
                [script EXCEPT !.exc = "SystemExit",
                               !.pc = IF Caught("SystemExit") THEN "except" ELSE "unwind"]
    /\ UNCHANGED Host

\* lines 236-242: the end of the try block
ScriptSuccess ==
    /\ script.pc = "try" /\ script.at > Len(script.text)
    /\ script' = Printed([script EXCEPT !.pc = "trailer"],
                         <<"CAD code executed successfully">>)
    /\ UNCHANGED Host

\* lines 244-247: the handler prints the message and the trace and calls
\* sys.exit(1), which ends the process unless the text has rebound it
ScriptExcept ==
    /\ script.pc = "except"
    /\ script' = Printed(IF script.exit_rebound THEN [script EXCEPT !.pc = "trailer"]
                         ELSE Ended(1),
                         <<"Error in CAD code: ", "Traceback">>)
    /\ UNCHANGED Host

\* lines 249-251, and the end of the file
ScriptTrailer ==
    /\ script.pc = "trailer"
    /\ script' = Printed(Ended(0), <<"CAD execution completed">>)
    /\ UNCHANGED Host

\* an exception leaves the file: SystemExit ends the process with its code,
\* any other one with the interpreter's trace and status 1 (a signal's status
\* for KeyboardInterrupt, non-zero as well)
ScriptUnwind ==
    /\ script.pc = "unwind"
    /\ script' = IF script.exc = "SystemExit" THEN Ended(0)
                 ELSE Printed(Ended(1), <<"Traceback">>)
    /\ UNCHANGED Host

NextScript ==
    \/ ScriptCompile \/ ScriptPreamble \/ ScriptUser \/ ScriptSuccess
    \/ ScriptExcept \/ ScriptTrailer \/ ScriptUnwind

SpecScript == InitScript /\ [][NextScript]_vars

(* -------------------------------- C18 --------------------------------- *)

ScriptEnded == script.pc = "ended"

Shows(token) == \E i \in 1..Len(script.out) : script.out[i] = token

\* the record _run returns for the status the script ended with
ScriptRecord == CompletedRecord(script.status[1], script.out, <<>>)

\* C18 as stated: whenever a line of the caller's text has raised an
\* exception, the boundary has caught it and printed its message and trace,
\* and the process ends with a non-zero status, so that the record has
\* success=false.
C18_AsStated ==
    (ScriptEnded /\ script.exc # "") =>
        /\ Shows("Error in CAD code: ") /\ Shows("Traceback")
        /\ script.status[1] # 0 /\ ~ScriptRecord.success

\* C18 amended: an exception derived from Exception raised by the caller's
\* text is caught by the boundary, which prints its message and trace and
\* calls sys.exit(1): the process ends with status 1 unless the text has
\* rebound sys.exit, in which case the script runs on to its end and status 0.
\* Any other exception (SystemExit, KeyboardInterrupt, another BaseException)
\* is not caught by the boundary: SystemExit ends the process with its own
\* code (0 for SystemExit(0)), the others end it with the interpreter's trace
\* and a non-zero status.  A text that does not compile ends with status 1
\* before any of it runs.  success is true exactly when the status is 0.
C18_BoundaryCatchesException ==
    ScriptEnded =>
        /\ script.exc = "Exception" =>
              /\ Shows("Error in CAD code: ") /\ Shows("Traceback")
              /\ script.status[1] = (IF script.exit_rebound THEN 0 ELSE 1)
        /\ script.exc \in {"BaseException", "SystemExit"} =>
              /\ ~Shows("Error in CAD code: ")
              /\ script.status[1] = 0 <=> script.exc = "SystemExit"
              /\ Shows("Traceback") <=> script.exc = "BaseException"
        /\ Shows("SyntaxError") => script.status[1] = 1 /\ script.exc = ""
        /\ ScriptRecord.success <=> script.status[1] = 0

\* the second line raised an Exception: message, trace, status 1
C18_Witness ==
    /\ ScriptEnded /\ script.exc = "Exception" /\ script.at = 2
    /\ Shows("Error in CAD code: ") /\ script.status = Some(1)
    /\ ~ScriptRecord.success

(* -------------------------------- C19 --------------------------------- *)

\* the call made right after call number i, if any has been made yet
NextIs(i, op) == i < Len(Trace) => Trace[i + 1].op = op

\* C19: when images.get finds the image, no build is attempted and the
\* Dockerfile is not looked for; when it reports ImageNotFound, the Dockerfile
\* is looked for and, only if it exists, images.build is called, once; when
\* it raises anything else, no build is attempted and the outer handler of
\* _run returns the failure record.
C19_BuildOnlyIfMissing ==
    /\ AtMostOnce("images.get") /\ AtMostOnce("exists") /\ AtMostOnce("images.build")
    /\ \A g \in Made("images.get") :
          /\ Trace[g].res = "found" => Never("exists") /\ Never("images.build")
          /\ Trace[g].res = "ImageNotFound" =>
                Len(Trace) > g /\ Trace[g + 1].op = "exists"
          /\ Trace[g].res = "raised" =>
                /\ Never("exists") /\ Never("images.build")
                /\ Len(Trace) > g /\ Trace[g + 1] = Return
                /\ \A p \in Procs : inv[p].pc # "idle" =>
                      inv[p].raised = "images.get" /\ IsFailure(Ret(p))
    /\ \A e \in Made("exists") :
          /\ \E g \in Made("images.get") : g + 1 = e /\ Trace[g].res = "ImageNotFound"
          /\ IF Trace[e].res = "true" THEN NextIs(e, "images.build")
             ELSE Never("images.build")
    /\ \A b \in Made("images.build") :
          \E e \in Made("exists") : e + 1 = b /\ Trace[e].res = "true"

\* an image reported as not found, built once after the Dockerfile was found,
\* and a script run to completion in it
C19_Witness ==
    \E p \in Procs :
        /\ Completed(p) /\ Ok("images.build") # {} /\ image_present
        /\ Trace[1].res = "ImageNotFound" /\ Trace[2].res = "true"

(* -------------------------------- C20 --------------------------------- *)

\* the record comes from the handler of the wait or from the outer handler
ToolLevelFailure(p) == inv[p].raised # "" \/ inv[p].waited = "APIError"

\* C20: in every record _run returns, success is true exactly when
\* return_code is 0 and error is None exactly when success is true; a record
\* of a tool-level failure (configuration error, orchestration exception,
\* timeout) has return_code -1, empty output and no files_created, whatever
\* the instance printed and whatever files are in the output directories.
C20_RecordsAreConsistent ==
    \A p \in Procs : Returns(p) =>
        /\ Ret(p).success <=> Ret(p).return_code = 0
        /\ Ret(p).error = None <=> Ret(p).success
        /\ ToolLevelFailure(p) =>
              /\ ~Ret(p).success /\ Ret(p).return_code = -1
              /\ Ret(p).output = "" /\ Ret(p).files_created = <<>>

\* container.logs raised after the script had printed and written part.step
C20_Witness ==
    \E p \in Procs :
        /\ Returns(p) /\ inv[p].raised = "logs"
        /\ inv[p].exited # None /\ inv[p].exited[1][2] # ""
        /\ \E f \in fs : Reportable(f)
        /\ Ret(p).return_code = -1 /\ Ret(p).output = "" /\ Ret(p).files_created = <<>>

(* -------------------------------- C21 --------------------------------- *)

CleanupLabels == {"pre_get", "pre_stop", "pre_remove", "fin_get", "fin_stop", "fin_remove"}

\* the call just made by the cleanup raised
CleanupCallRaised == Len(Trace') > 0 /\ Trace'[Len(Trace')].res = "raised"

C21_Step(p) ==
    (inv[p].pc \in CleanupLabels /\ inv'[p] # inv[p]) =>
        /\ inv'[p].raised = inv[p].raised /\ inv'[p].ret = inv[p].ret
        /\ inv'[p].pc \in CleanupLabels \cup {AfterCleanup(inv[p].pc)}
        /\ CleanupCallRaised =>
              /\ inv'[p].pc = AfterCleanup(inv[p].pc)
              /\ instance' = instance
              /\ inv[p].pc \in {"pre_stop", "fin_stop"} => Exists'

\* C21: _cleanup_container never raises: when the lookup, the stop or the
\* remove fails, the exception is swallowed, nothing is put into the record
\* of the call and the caller goes on (to containers.create, or to the
\* return); a failed stop is not followed by a remove in that cleanup and
\* the instance with the fixed name stays in place.
C21_CleanupNeverRaises == [][\A p \in Procs : C21_Step(p)]_vars

\* the stop of the cleanup before the creation failed: no remove came after
\* it, the instance stayed, and the call went on to containers.create
C21_Witness ==
    /\ Exists /\ instance[1].id # calls
    /\ \E i \in 2..(Len(Trace) - 1) :
          /\ IsOk(i - 1, "get")
          /\ Trace[i].op = "stop" /\ Trace[i].res = "raised"
          /\ Trace[i + 1].op = "create"
    /\ Never("remove")

(* -------------------------------- C22 --------------------------------- *)

\* a file below a subdirectory of one of the two output directories
Nested(f) == f.is_file /\ f.sub # "" /\ f.dir \in {output_dir, cad_dir}

\* C22: the scan is not recursive: every entry of files_created of a
\* completed execution describes a regular file located directly in one of
\* the two output directories, and a file with a recognized extension below
\* the step/ subdirectory of the CAD output directory is not listed.
C22_ScanNotRecursive ==
    \A p \in Procs : Completed(p) =>
        LET listed == Ret(p).files_created IN
        /\ \A i \in 1..Len(listed) :
              \E f \in fs : ~Nested(f) /\ listed[i].path = PathStr(f.dir, f)
        /\ \A f \in fs : Nested(f) =>
              \A i \in 1..Len(listed) : listed[i].path # PathStr(f.dir, f)

\* the script wrote step/part.step below the CAD output directory and
\* nothing else: the completed call lists no file
C22_Witness ==
    \E p \in Procs :
        /\ Completed(p) /\ Ret(p).files_created = <<>>
        /\ \E f \in fs : Nested(f) /\ f.sub = "step" /\ f.suffix \in Recognized
        /\ \A f \in fs : Nested(f)

(* ---------------------- SecureCADExecutor() --------------------------- *)

\* before SecureCADExecutor() is called: either output directory may or may
\* not exist on the host; the workload is that of the recorded runs
InitBuild ==
    /\ budget = [p \in Procs |-> IF p = "a" THEN MaxCalls ELSE 0]
    /\ writes = MaxFilesLogged
    /\ faults = -1
    /\ serialized = TRUE
    /\ cad_dir \in {DefaultCadDir, output_dir}
    /\ dockerfile_present \in BOOLEAN
    /\ image_present \in BOOLEAN
    /\ instance = None
    /\ fs = {}
    /\ calls = 0
    /\ inv = [p \in Procs |-> Idle]
    /\ fs_at_call = {}
    /\ crossKill = ""
    /\ trace = None
    /\ script = NoScript
    /\ examples = NoExamples
    /\ docs = NoDocs
    /\ loop = NoLoop
    /\ \E present \in SUBSET {output_dir, cad_dir} :
          tool = [pc |-> "mkdir_output", dirs |-> present, made |-> {},
                  client |-> FALSE, error |-> ""]

Run == <<budget, writes, faults, serialized, cad_dir, dockerfile_present, image_present,
         instance, fs, calls, inv, fs_at_call, crossKill, trace, script>>

\* path.mkdir(parents=True, exist_ok=True): nothing to do when the directory
\* exists, created when absent, OSError when it cannot be created
Mkdir(d, next) ==
    \/ tool' = [tool EXCEPT !.pc = next, !.dirs = @ \cup {d},
                            !.made = IF d \in tool.dirs THEN @ ELSE @ \cup {d}]
    \/ d \notin tool.dirs /\ tool' = [tool EXCEPT !.pc = "raised", !.error = "OSError"]

MkdirOutput == tool.pc = "mkdir_output" /\ Mkdir(output_dir, "mkdir_cad") /\ UNCHANGED <<Run, examples, docs, loop>>

MkdirCad == tool.pc = "mkdir_cad" /\ Mkdir(cad_dir, "from_env") /\ UNCHANGED <<Run, examples, docs, loop>>

\* the exception of docker.from_env() is kept for the first use of the client
ClientDeferred == tool' = [tool EXCEPT !.pc = "ready"]

\* `except Exception as e: raise RuntimeError(...)`
ClientFailed == tool' = [tool EXCEPT !.pc = "raised", !.error = "RuntimeError"]

\* self._docker_client = docker.from_env(), and `return self`
FromEnv ==
    /\ tool.pc = "from_env"
    /\ \/ tool' = [tool EXCEPT !.pc = "ready", !.client = TRUE]
       \/ ClientFailed
    /\ UNCHANGED <<Run, examples, docs, loop>>

NextBuild == MkdirOutput \/ MkdirCad \/ FromEnv \/ Next

SpecBuild == InitBuild /\ [][NextBuild]_vars

(* -------------------------------- C23 --------------------------------- *)

C23_State ==
    /\ tool.pc \in {"from_env", "ready"} => {output_dir, cad_dir} \subseteq tool.dirs
    /\ tool.pc = "ready" <=> tool.client
    /\ tool.pc # "ready" =>
          /\ calls = 0 /\ instance = None
          /\ \A p \in Procs : inv[p] = Idle

C23_Step ==
    /\ tool.dirs \subseteq tool'.dirs
    /\ tool'.made = tool.made \cup (tool'.dirs \ tool.dirs)
    /\ (tool.pc = "from_env" /\ tool' # tool) =>
          \/ tool' = [tool EXCEPT !.pc = "ready", !.client = TRUE]
          \/ tool' = [tool EXCEPT !.pc = "raised", !.error = "RuntimeError"]
    /\ (tool'.error = "RuntimeError" /\ tool.error = "") => tool.pc = "from_env"
    /\ tool.pc \in {"ready", "raised"} => tool' = tool

\* C23: constructing SecureCADExecutor creates each of the two host output
\* directories that is absent and only then initializes the client; when the
\* client cannot be initialized the construction raises RuntimeError: the
\* object never becomes usable, no _run begins and no record is returned; on
\* a usable object the client is set.
C23_ConstructionFailsLoudly == []C23_State /\ [][C23_Step]_vars

\* both directories were absent and have been created, then the client
\* could not be initialized
C23_Witness ==
    /\ tool.pc = "raised" /\ tool.error = "RuntimeError" /\ ~tool.client
    /\ cad_dir # output_dir /\ tool.made = {output_dir, cad_dir}
    /\ calls = 0

(* -------------------- Build123DExamplesTool._run ---------------------- *)

MaxWords == 4

UpperCase == "ABCDEFGHIJKLMNOPQRSTUVWXYZ"

LowerCase == "abcdefghijklmnopqrstuvwxyz"

\* str.lower() on one character
LowerChar(c) ==
    IF \E i \in 1..Len(UpperCase) : SubSeq(UpperCase, i, i) = c
    THEN LET i == CHOOSE j \in 1..Len(UpperCase) : SubSeq(UpperCase, j, j) = c
         IN  SubSeq(LowerCase, i, i)
    ELSE c

\* str.lower()
RECURSIVE Lower(_)
Lower(s) == IF Len(s) = 0 THEN ""
            ELSE LowerChar(SubSeq(s, 1, 1)) \o Lower(SubSeq(s, 2, Len(s)))

\* `kw in text`: kw is a substring of text
OccursIn(kw, text) ==
    \E i \in 1..(Len(text) - Len(kw) + 1) : SubSeq(text, i, i + Len(kw) - 1) = kw

\* the catalogue of _load_examples, in its order; of each code only the
\* last line is kept
EXAMPLES ==
    << [title |-> "Simple Box", description |-> "Create a basic 3D box",
        code |-> "box.part.export_step('box.step')",
        keywords |-> <<"box", "basic", "3d", "simple">>],
       [title |-> "Cylinder with Fillets",
        description |-> "Create a cylinder with filleted edges",
        code |-> "cyl.part.export_step('cylinder.step')",
        keywords |-> <<"cylinder", "fillet", "edges", "round">>],
       [title |-> "Extruded Rectangle",
        description |-> "Create a rectangular profile and extrude it",
        code |-> "part.part.export_step('rectangle.step')",
        keywords |-> <<"rectangle", "extrude", "sketch", "2d">>],
       [title |-> "Part with Holes",
        description |-> "Create a plate with multiple holes",
        code |-> "plate.part.export_step('plate.step')",
        keywords |-> <<"hole", "holes", "grid", "pattern", "plate">>],
       [title |-> "Revolved Profile", description |-> "Create a revolved solid",
        code |-> "revolved.part.export_step('revolved.step')",
        keywords |-> <<"revolve", "rotation", "profile", "spin">>] >>

\* the words the queries are made of
Vocabulary == {"Box", "Cylinder", "sketch", "Wholesale", "REVOLVE", "gear"}

RECURSIVE Join(_)
Join(words) == IF Len(words) = 0 THEN ""
               ELSE IF Len(words) = 1 THEN words[1]
               ELSE words[1] \o " " \o Join(Tail(words))

\* the queries: up to MaxWords different words, in any order
Queries ==
    {Join(w) : w \in UNION {{v \in [1..n -> Vocabulary] :
                                \A i, j \in 1..n : v[i] = v[j] => i = j} : n \in 0..MaxWords}}

\* any(kw in query_lower for kw in example['keywords'])
AnyKeyword(example, query_lower) ==
    \E k \in 1..Len(example.keywords) : OccursIn(example.keywords[k], query_lower)

\* the whole list
Untruncated(list) == list

\* matches[:3]
TopThree(list) == SubSeq(list, 1, IF Len(list) < 3 THEN Len(list) ELSE 3)

\* the code fence of three backquotes, written with a character that a
\* string of this language can hold
Fence == "~~~"

\* what the loop of lines 367-371 appends for one example
Block(ex) ==
    "**" \o ex.title \o "**\n" \o ex.description \o "\n\n"
    \o Fence \o "python\n" \o ex.code \o "\n" \o Fence \o "\n\n" \o "---\n\n"

RECURSIVE Format(_)
Format(list) == IF Len(list) = 0 THEN "" ELSE Block(list[1]) \o Format(Tail(list))

Header == "Build123D Code Examples:\n\n"

InitExamples ==
    /\ budget = [p \in Procs |-> 0]
    /\ writes = 0
    /\ faults = 0
    /\ serialized = TRUE
    /\ InitCommon
    /\ cad_dir = DefaultCadDir /\ dockerfile_present /\ image_present
    /\ trace = None
    /\ script = NoScript
    /\ examples \in {[NoExamples EXCEPT !.pc = "lower", !.query = q] : q \in Queries}
    /\ docs = NoDocs
    /\ loop = NoLoop

Executor == <<budget, writes, faults, serialized, cad_dir, dockerfile_present, image_present,
              instance, fs, calls, inv, fs_at_call, crossKill, trace, script, tool>>

\* query_lower = query.lower(); matches = []
ExamplesLower ==
    /\ examples.pc = "lower"
    /\ examples' = [examples EXCEPT !.pc = "scan", !.at = 1,
                                    !.query_lower = Lower(examples.query)]
    /\ UNCHANGED <<Executor, docs, loop>>

\* one round of `for ex_id, example in self.EXAMPLES.items()`
ExamplesScan ==
    /\ examples.pc = "scan"
    /\ IF examples.at > Len(EXAMPLES)
       THEN examples' = [examples EXCEPT !.pc = "fallback"]
       ELSE examples' = [examples EXCEPT
                !.at = @ + 1,
                !.matches = IF AnyKeyword(EXAMPLES[examples.at], examples.query_lower)
                            THEN Append(@, EXAMPLES[examples.at]) ELSE @]
    /\ UNCHANGED <<Executor, docs, loop>>

\* if not matches: matches = list(self.EXAMPLES.values())
ExamplesFallback ==
    /\ examples.pc = "fallback"
    /\ examples' = [examples EXCEPT !.pc = "format",
                                    !.matches = IF @ = <<>> THEN EXAMPLES ELSE @]
    /\ UNCHANGED <<Executor, docs, loop>>

\* the formatting loop and the return
ExamplesFormat ==
    /\ examples.pc = "format"
    /\ examples' = [examples EXCEPT !.pc = "done",
                                    !.result = Header \o Format(TopThree(examples.matches))]
    /\ UNCHANGED <<Executor, docs, loop>>

NextExamples == ExamplesLower \/ ExamplesScan \/ ExamplesFallback \/ ExamplesFormat

SpecExamples == InitExamples /\ [][NextExamples]_vars

(* -------------------------------- C24 --------------------------------- *)

\* the catalogue positions of the examples with a keyword in the lower-cased
\* query; all positions when there is none
Matching == {i \in 1..Len(EXAMPLES) : AnyKeyword(EXAMPLES[i], Lower(examples.query))}

Candidates == IF Matching = {} THEN 1..Len(EXAMPLES) ELSE Matching

\* the text that shows the examples at the positions S in catalogue order
RECURSIVE Showing(_, _)
Showing(S, i) ==
    IF i > Len(EXAMPLES) THEN ""
    ELSE (IF i \in S THEN Block(EXAMPLES[i]) ELSE "") \o Showing(S, i + 1)

MaxRuns == 2

MaxServed == 1

DOC_PAGES ==
    [introduction |-> "introduction.html", key_concepts |-> "key_concepts.html",
     builder_mode |-> "key_concepts_builder.html",
     algebra_mode |-> "key_concepts_algebra.html",
     examples |-> "introductory_examples.html", objects |-> "objects.html",
     operations |-> "operations.html", selectors |-> "selector.html",
     builders |-> "builders.html", import_export |-> "import_export.html",
     faq |-> "faq.html", cheat_sheet |-> "cheat_sheet.html"]

\* page_keywords, in the order of the dict
page_keywords ==
    << <<"sketch", {"builders", "examples"}>>, <<"extrude", {"operations", "examples"}>>,
       <<"fillet", {"operations", "examples"}>>, <<"chamfer", {"operations", "examples"}>>,
       <<"revolve", {"operations", "examples"}>>, <<"loft", {"operations", "examples"}>>,
       <<"selector", {"selectors", "examples"}>>, <<"filter", {"selectors"}>>,
       <<"circle", {"objects", "examples"}>>, <<"rectangle", {"objects", "examples"}>>,
       <<"box", {"objects", "examples"}>>, <<"cylinder", {"objects", "examples"}>>,
       <<"import", {"import_export"}>>, <<"export", {"import_export"}>>,
       <<"step", {"import_export"}>>, <<"stl", {"import_export"}>> >>

\* the pages _run can ask for
Pages == {"examples", "operations", "builders"}
         \cup UNION {page_keywords[i][2] : i \in 1..Len(page_keywords)}

\* the queries, and the texts the documentation site serves as main content
DocQueries == {"Sketch", "gear", "Extrude sketch selector"}

WebTexts == {"Extrude Sketch Selector guide\nBuildSketch basics", "sketch\rnotes"}

\* the cache before the tool is used: empty, or every page stored
InitialText == "Extrude Sketch Selector guide\nBuildSketch basics"

\* text written by write_text(text, encoding='utf-8') on a POSIX host
WriteText(text) == text

\* read_text(encoding='utf-8'): universal newlines, \r\n and \r read as \n
RECURSIVE ReadText(_)
ReadText(s) ==
    IF Len(s) = 0 THEN ""
    ELSE IF Len(s) >= 2 /\ SubSeq(s, 1, 2) = "\r\n" THEN "\n" \o ReadText(SubSeq(s, 3, Len(s)))
    ELSE IF SubSeq(s, 1, 1) = "\r" THEN "\n" \o ReadText(SubSeq(s, 2, Len(s)))
    ELSE SubSeq(s, 1, 1) \o ReadText(SubSeq(s, 2, Len(s)))

\* content.split('\n')
RECURSIVE SplitLines(_)
SplitLines(s) ==
    IF \E i \in 1..Len(s) : SubSeq(s, i, i) = "\n"
    THEN LET i == CHOOSE j \in 1..Len(s) :
                     /\ SubSeq(s, j, j) = "\n"
                     /\ \A k \in 1..(j - 1) : SubSeq(s, k, k) # "\n"
         IN  <<SubSeq(s, 1, i - 1)>> \o SplitLines(SubSeq(s, i + 1, Len(s)))
    ELSE <<s>>

\* sep.join(parts)
RECURSIVE JoinWith(_, _)
JoinWith(sep, parts) ==
    IF Len(parts) = 0 THEN ""
    ELSE IF Len(parts) = 1 THEN parts[1]
    ELSE parts[1] \o sep \o JoinWith(sep, Tail(parts))

context_window == 5

\* the sections of the lines that contain the query, without repetitions
RECURSIVE Sections(_, _, _, _)
Sections(lines, query, i, found) ==
    IF i > Len(lines) THEN found
    ELSE IF OccursIn(query, Lower(lines[i]))
    THEN LET start   == IF i - context_window < 1 THEN 1 ELSE i - context_window
             end     == IF i + context_window > Len(lines) THEN Len(lines)
                        ELSE i + context_window
             section == JoinWith("\n", SubSeq(lines, start, end))
         IN  Sections(lines, query, i + 1,
                      IF \E k \in 1..Len(found) : found[k] = section THEN found
                      ELSE Append(found, section))
    ELSE Sections(lines, query, i + 1, found)

\* _extract_relevant_sections
ExtractRelevantSections(content, query) ==
    LET relevant_lines == Sections(SplitLines(content), query, 1, <<>>)
    IN  JoinWith("\n\n...\n\n",
                 SubSeq(relevant_lines, 1,
                        IF Len(relevant_lines) < 5 THEN Len(relevant_lines) ELSE 5))

\* _get_default_guidance, the three guidance texts and the general one
\* shortened to their first line
GetDefaultGuidance(query) ==
    IF OccursIn("sketch", query) THEN "\nBuild123D Sketch Basics:\n"
    ELSE IF OccursIn("extrude", query) THEN "\nBuild123D Extrude Operation:\n"
    ELSE IF OccursIn("fillet", query) THEN "\nBuild123D Fillet Operation:\n"
    ELSE "\nNo specific documentation found for: " \o query \o "\n"

\* the pages the keywords of the query select
PagesToSearch(query_lower) ==
    UNION {page_keywords[i][2] : i \in {j \in 1..Len(page_keywords) :
                                          OccursIn(page_keywords[j][1], query_lower)}}

\* the orders in which a set can be iterated
Orders(S) == {o \in [1..Cardinality(S) -> S] : \A i, j \in DOMAIN o : o[i] = o[j] => i = j}

\* results[:3] shown as text
RECURSIVE FormatResults(_)
FormatResults(results) ==
    IF Len(results) = 0 THEN ""
    ELSE "**Source: " \o results[1].page \o "**\n"
         \o "URL: " \o results[1].url \o "\n\n"
         \o results[1].content \o "\n\n" \o "---\n\n"
         \o FormatResults(Tail(results))

\* what one call of _fetch_page_content can do: the text it returns, the
\* cache files after it and what the site served to it; the site answers
\* only while it is online, and a request it does not answer fails
FetchPageContent(cache, page_key, online) ==
    IF cache[page_key] # None
    THEN {[ret |-> Some(ReadText(cache[page_key][1])), cache |-> cache, net |-> "none",
           text |-> ""]}
    ELSE {[ret |-> None, cache |-> cache, net |-> "failed", text |-> ""]}
         \cup IF ~online THEN {}
              ELSE {[ret |-> None, cache |-> cache, net |-> "no main", text |-> ""]}
                   \cup {[ret |-> Some(t), net |-> "main", text |-> t,
                          cache |-> [cache EXCEPT ![page_key] = Some(WriteText(t))]]
                         : t \in WebTexts}
                   \cup {[ret |-> None, net |-> "main", text |-> t,
                          cache |-> [cache EXCEPT ![page_key] = Some("")]]
                         : t \in WebTexts}

InitDocs ==
    /\ budget = [p \in Procs |-> 0]
    /\ writes = 0
    /\ faults = 0
    /\ serialized = TRUE
    /\ InitCommon
    /\ cad_dir = DefaultCadDir /\ dockerfile_present /\ image_present
    /\ trace = None
    /\ script = NoScript
    /\ examples = NoExamples
    /\ loop = NoLoop
    /\ \E stored \in {None, Some(InitialText)} :
          docs = [pc |-> "idle", cache |-> [k \in Pages |-> stored], served |-> 0,
                  runs |-> 0, process |-> 0, query |-> "", query_lower |-> "",
                  order |-> <<>>, todo |-> <<>>, results |-> <<>>, result |-> None,
                  start |-> [k \in Pages |-> stored], first |-> None, last |-> None]

RestOfDocs == <<Executor, examples, loop>>

\* a call of _run begins, in the interpreter process of the call before or
\* in a new one
DocsBegin(q, fresh) ==
    /\ docs.pc = "idle" /\ docs.runs < MaxRuns
    /\ docs.runs = 0 => fresh
    /\ docs' = [docs EXCEPT
          !.pc = "select", !.runs = @ + 1, !.query = q,
          !.process = IF fresh THEN @ + 1 ELSE @,
          !.start = docs.cache, !.results = <<>>, !.result = None, !.last = None,
          !.first = IF docs.runs = 0 THEN None
                    ELSE Some([query |-> docs.query, start |-> docs.start,
                               order |-> docs.order, process |-> docs.process,
                               result |-> docs.result[1]])]
    /\ UNCHANGED RestOfDocs

\* lines 72-103: the pages to search; a set of str is iterated in an order
\* that depends on the hash seed of the process
DocsSelect ==
    /\ docs.pc = "select"
    /\ LET query_lower == Lower(docs.query)
           pages_to_search == PagesToSearch(query_lower)
       IN  \E o \in IF pages_to_search = {} THEN {<<"examples", "operations", "builders">>}
                    ELSE Orders(pages_to_search) :
              /\ (/\ docs.first # None /\ docs.first[1].process = docs.process
                  /\ docs.first[1].query = docs.query) => o = docs.first[1].order
              /\ docs' = [docs EXCEPT !.pc = "page", !.query_lower = query_lower,
                                      !.order = o, !.todo = o]
    /\ UNCHANGED RestOfDocs

\* one round of the loop of lines 106-118
DocsPage ==
    /\ docs.pc = "page" /\ docs.todo # <<>>
    /\ LET page_key == Head(docs.todo) IN
       \E f \in FetchPageContent(docs.cache, page_key, docs.served < MaxServed) :
          /\ LET relevant_sections ==
                     IF f.ret = None THEN "" ELSE ExtractRelevantSections(f.ret[1], docs.query_lower)
             IN  docs' = [docs EXCEPT
                     !.todo = Tail(@), !.cache = f.cache,
                     !.served = IF f.net \in {"main", "no main"} THEN @ + 1 ELSE @,
                     !.last = Some([page |-> page_key, had |-> docs.cache[page_key],
                                    net |-> f.net, text |-> f.text, ret |-> f.ret]),
                     !.results = IF page_key \in DOMAIN DOC_PAGES /\ relevant_sections # ""
                                 THEN Append(@, [page |-> page_key,
                                                 url |-> "https://build123d.readthedocs.io/en/latest/"
                                                         \o DOC_PAGES[page_key],
                                                 content |-> relevant_sections])
                                 ELSE @]
    /\ UNCHANGED RestOfDocs

\* lines 121-131
DocsFormat ==
    /\ docs.pc = "page" /\ docs.todo = <<>>
    /\ docs' = [docs EXCEPT
          !.pc = "idle",
          !.result = Some(IF docs.results = <<>> THEN GetDefaultGuidance(docs.query_lower)
                          ELSE "Build123D Documentation Search Results:\n\n"
                               \o FormatResults(TopThree(docs.results)))]
    /\ UNCHANGED RestOfDocs

NextDocs ==
    \/ \E q \in DocQueries, fresh \in BOOLEAN : DocsBegin(q, fresh)
    \/ DocsSelect
    \/ DocsPage
    \/ DocsFormat

SpecDocs == InitDocs /\ [][NextDocs]_vars

(* -------------------------------- C25 --------------------------------- *)

\* C25 as stated: a request for a page whose cache file exists returns
\* exactly the stored text and fetches nothing; a request that fetched the
\* page with its main content stores the text and returns it; a failed fetch
\* or a page without main content returns nothing and leaves no cache file.
C25_AsStated ==
    (docs.pc # "off" /\ docs.last # None) =>
        LET l == docs.last[1] IN
        IF l.had # None
        THEN /\ l.net = "none" /\ l.ret = l.had
             /\ docs.cache[l.page] = l.had
        ELSE IF l.net = "main"
        THEN l.ret = Some(l.text) /\ docs.cache[l.page] = Some(l.text)
        ELSE l.ret = None /\ docs.cache[l.page] = None

(* -------------------------------- C26 --------------------------------- *)

\* C26 as stated: two calls of _run with the same query that began with the
\* same cache files, every page they search among them, return the same text.
C26_AsStated ==
    (/\ docs.pc = "idle" /\ docs.first # None /\ docs.result # None
     /\ docs.first[1].query = docs.query /\ docs.first[1].start = docs.start
     /\ \A i \in 1..Len(docs.order) : docs.start[docs.order[i]] # None) =>
        docs.first[1].result = docs.result[1]

(* --------------------------- run_interactive -------------------------- *)

MaxPrompts == 3

\* what the user can type at the two prompts
Descriptions == {"exit", "EXIT", "Quit", "q", " exit", "quit it", "", "  ", "\t ", "a box"}

DesignTypes == {"", " ", " bracket ", "exit"}

\* the characters str.strip() removes, as far as a typed line can hold them
Whitespace == {" ", "\t", "\r"}

\* str.strip()
RECURSIVE Strip(_)
Strip(s) ==
    IF Len(s) = 0 THEN s
    ELSE IF SubSeq(s, 1, 1) \in Whitespace THEN Strip(SubSeq(s, 2, Len(s)))
    ELSE IF SubSeq(s, Len(s), Len(s)) \in Whitespace THEN Strip(SubSeq(s, 1, Len(s) - 1))
    ELSE s

\* not user_input.strip(), with a variant that sees only the empty line
Empty(user_input) == user_input = ""

Blank(user_input) == Strip(user_input) = ""

\* line 84
IsExitWord(user_input) == \E w \in {"exit", "quit", "q"} : Lower(user_input) = w

\* what input() can do: return the line typed, or raise KeyboardInterrupt
\* (Ctrl-C) or EOFError (end of input)
Keyboard(lines) ==
    {[kind |-> "line", text |-> w] : w \in lines}
    \cup {[kind |-> k, text |-> ""] : k \in {"KeyboardInterrupt", "EOFError"}}

\* how generate_cad_from_text can end
Generations ==
    {[kind |-> k, text |-> ""] : k \in {"result", "Exception", "KeyboardInterrupt"}}

\* lines 106-108 and 109-111
Interrupted(ev, at) ==
    loop' = [loop EXCEPT !.pc = "returned", !.printed = "Goodbye!", !.event = ev, !.at = at]

Reported(ev, at) ==
    loop' = [loop EXCEPT !.pc = "description", !.printed = "Error", !.event = ev, !.at = at]

InitLoop ==
    /\ budget = [p \in Procs |-> 0]
    /\ writes = 0
    /\ faults = 0
    /\ serialized = TRUE
    /\ InitCommon
    /\ cad_dir = DefaultCadDir /\ dockerfile_present /\ image_present
    /\ trace = None
    /\ script = NoScript
    /\ examples = NoExamples
    /\ docs = NoDocs
    /\ loop = [pc |-> "description", user_input |-> "", design_type |-> "", prompts |-> 0,
               generations |-> 0, printed |-> "Type 'exit' or 'quit' to stop.",
               event |-> [kind |-> "start", text |-> ""], at |-> "start"]

RestOfLoop == <<Executor, examples, docs>>

\* lines 82-90
ReadDescription ==
    /\ loop.pc = "description" /\ loop.prompts < MaxPrompts
    /\ \E ev \in Keyboard(Descriptions) :
          LET asked == [loop EXCEPT !.prompts = @ + 1, !.event = ev, !.at = "description"] IN
          IF ev.kind = "KeyboardInterrupt" THEN
              loop' = [asked EXCEPT !.pc = "returned", !.printed = "Goodbye!"]
          ELSE IF ev.kind = "EOFError" THEN
              loop' = [asked EXCEPT !.printed = "Error"]
          ELSE IF IsExitWord(ev.text) THEN
              loop' = [asked EXCEPT !.pc = "returned", !.printed = "Goodbye!",
                                    !.user_input = ev.text]
          ELSE IF Blank(ev.text) THEN
              loop' = [asked EXCEPT !.printed = "Please provide a design description.",
                                    !.user_input = ev.text]
          ELSE
              loop' = [asked EXCEPT !.pc = "design_type", !.user_input = ev.text]
    /\ UNCHANGED RestOfLoop

\* lines 93-95
ReadDesignType ==
    /\ loop.pc = "design_type"
    /\ \E ev \in Keyboard(DesignTypes) :
          IF ev.kind = "KeyboardInterrupt" THEN Interrupted(ev, "design_type")
          ELSE IF ev.kind = "EOFError" THEN Reported(ev, "design_type")
          ELSE loop' = [loop EXCEPT
                   !.pc = "generate", !.event = ev, !.at = "design_type",
                   !.design_type = IF Strip(ev.text) = "" THEN "mechanical part"
                                   ELSE Strip(ev.text)]
    /\ UNCHANGED RestOfLoop

\* lines 98-104
Generate ==
    /\ loop.pc = "generate"
    /\ \E ev \in Generations :
          LET called == [loop EXCEPT !.generations = @ + 1] IN
          IF ev.kind = "KeyboardInterrupt" THEN
              loop' = [called EXCEPT !.pc = "returned", !.printed = "Goodbye!",
                                     !.event = ev, !.at = "generate"]
          ELSE IF ev.kind = "Exception" THEN
              loop' = [called EXCEPT !.pc = "description", !.printed = "Error",
                                     !.event = ev, !.at = "generate"]
          ELSE loop' = [called EXCEPT !.pc = "description", !.printed = "Generation complete!",
                                      !.event = ev, !.at = "generate"]
    /\ UNCHANGED RestOfLoop

NextLoop == ReadDescription \/ ReadDesignType \/ Generate

SpecLoop == InitLoop /\ [][NextLoop]_vars

(* -------------------------------- C27 --------------------------------- *)

OnlyWhitespace(s) == \A i \in 1..Len(s) : SubSeq(s, i, i) \in Whitespace

C27_State ==
    /\ loop.pc = "returned" =>
          \/ loop.event.kind = "KeyboardInterrupt"
          \/ /\ loop.event.kind = "line" /\ loop.at = "description"
             /\ Lower(loop.event.text) \in {"exit", "quit", "q"}
    /\ loop.pc \in {"design_type", "generate"} => ~OnlyWhitespace(loop.user_input)

C27_Step ==
    /\ (/\ loop.pc = "description" /\ loop'.prompts = loop.prompts + 1
        /\ loop'.event.kind = "line" /\ OnlyWhitespace(loop'.event.text)) =>
           /\ loop'.pc = "description" /\ loop'.generations = loop.generations
           /\ loop'.printed = "Please provide a design description."
    /\ (loop.pc = "generate" /\ loop'.event.kind = "Exception") =>
           /\ loop'.pc = "description" /\ loop'.printed = "Error"
           /\ loop'.generations = loop.generations + 1

\* C27: the loop returns only after the description read was exit, quit or q
\* in any letter case, or after a keyboard interrupt; a description that is
\* empty or only whitespace starts no generation and is followed by the
\* description prompt; an exception raised by a generation is reported and
\* followed by the description prompt.
C27_LoopEndsOnlyOnRequest == []C27_State /\ [][C27_Step]_vars

\* the loop has returned on EXIT at its third prompt, after one generation
C27_Witness ==
    /\ loop.pc = "returned" /\ loop.event.kind = "line" /\ loop.event.text = "EXIT"
    /\ loop.generations = 1 /\ loop.prompts = 3

====
